---- MODULE Spec2Model ----
(***************************************************************************)
(* The provisioning script of OneBox (src/src/components/home/body.tsx,    *)
(* lines 91-376): a retrying download (downloadFile), the per-target       *)
(* binary installer (embeddingExternalBinaries), the helper and database   *)
(* downloads, and the top-level orchestration with its skip list,          *)
(* Promise.all fan-out and process.exit.                                   *)
(*                                                                         *)
(* Scheduling follows the Node.js event loop: one callback runs at a time; *)
(* a continuation after an await (a microtask) runs before any further     *)
(* I/O or timer callback.  Every action below is one such callback         *)
(* together with the synchronous code and microtask continuations of the   *)
(* same task that follow it up to the next await.                          *)
(*                                                                         *)
(* The environment: the transport may fail a request before the response,  *)
(* answer with a bad status or without a body, or fail while the body is   *)
(* streamed; the extraction may fail or yield a tree without the expected  *)
(* executable; renameSync may fail.  existsSync, unlinkSync and rmSync are *)
(* taken to succeed; mkdirSync raises only where its own rules say so (an  *)
(* existing directory without recursive: true).                            *)
(***************************************************************************)
EXTENDS Integers, Sequences, FiniteSets, TLC

(***************************************************************************)
(* Bounds of the model.                                                    *)
(***************************************************************************)
\* How many download tasks one modelled run launches: the run iterates a
\* sub-table of RUST_TARGET_TRIPLES and a leading part of dbFiles with at
\* most this many tasks in total (the sysproxy task of windows/amd64 counts).
MaxTasks == 2

(***************************************************************************)
(* Program constants.                                                      *)
(***************************************************************************)
BINARY_NAME == "sing-box"

SkipVersionList == {"v1.12.5"}

\* SING_BOX_VERSION is imported from ../src/types/definition; the run is
\* modelled for a version of the skip list and for one that is not in it.
Versions == {"v1.12.5", "v1.12.13"}

\* Object.entries order of RUST_TARGET_TRIPLES, flattened by the two loops
\* of downloadEmbeddingExternalBinaries.
RUST_TARGET_TRIPLES ==
    << [platform |-> "darwin",  arch |-> "arm64", triple |-> "aarch64-apple-darwin"],
       [platform |-> "darwin",  arch |-> "amd64", triple |-> "x86_64-apple-darwin"],
       [platform |-> "linux",   arch |-> "amd64", triple |-> "x86_64-unknown-linux-gnu"],
       [platform |-> "linux",   arch |-> "arm64", triple |-> "aarch64-unknown-linux-gnu"],
       [platform |-> "windows", arch |-> "amd64", triple |-> "x86_64-pc-windows-msvc"] >>

dbFiles == << "mixed-cache-rule-v1.db", "tun-cache-rule-v1.db" >>

\* downloadFile's default maxRetries.
maxRetries == 3

\* The unit of the progressive delay between attempts, in ms.
BackoffUnit == 1000

(***************************************************************************)
(* Tasks and paths.                                                        *)
(***************************************************************************)
BinaryTask(i) == <<"binary", i>>
SysproxyTask(i) == <<"sysproxy", i>>
DbTask(j) == <<"db", j>>

Kind(t) == t[1]
Entry(t) == RUST_TARGET_TRIPLES[t[2]]

IsHelperTarget(e) == e.platform = "windows" /\ e.arch = "amd64"

AllTasks ==
    {BinaryTask(i) : i \in DOMAIN RUST_TARGET_TRIPLES}
    \cup {SysproxyTask(i) : i \in {k \in DOMAIN RUST_TARGET_TRIPLES :
                                        IsHelperTarget(RUST_TARGET_TRIPLES[k])}}
    \cup {DbTask(j) : j \in DOMAIN dbFiles}

\* const extension = platform === 'windows' ? '.exe' : ''
Extension(platform) == IF platform = "windows" THEN ".exe" ELSE ""

\* const fileExtension = platform === 'windows' ? 'zip' : 'tar.gz'
FileExtension(platform) == IF platform = "windows" THEN "zip" ELSE "tar.gz"

BinDir == <<"src-tauri", "binaries">>
ResDir == <<"src-tauri", "resources">>

\* Mutant: the workspace is named after the platform alone.
TmpDirOfPlatform(e) == <<"tmp", e.platform>>

\* path.join(__dirname, 'tmp', `${platform}-${arch}-${Date.now()}-${random}`):
\* the time stamp and the random suffix are left out; platform and
\* architecture alone tell the workspaces of one run apart.
TmpDir(e) == <<"tmp", e.platform, e.arch>>

\* A file path: the directory and the components of the file name.
DownloadPath(e) ==
    [dir |-> TmpDir(e),
     name |-> <<BINARY_NAME, e.platform, e.arch, FileExtension(e.platform)>>]

ExtractedFilePath(e) ==
    [dir |-> TmpDir(e),
     name |-> <<BINARY_NAME, "version", e.platform, e.arch, "/",
                BINARY_NAME, Extension(e.platform)>>]

TargetPath(e) ==
    [dir |-> BinDir, name |-> <<BINARY_NAME, e.triple, Extension(e.platform)>>]

SysproxyPath(e) ==
    [dir |-> BinDir, name |-> <<"sysproxy", e.triple, Extension(e.platform)>>]

DbPath(j) == [dir |-> ResDir, name |-> <<dbFiles[j]>>]

\* The dest argument of the task's downloadFile call.
Dest(t) ==
    CASE Kind(t) = "binary" -> DownloadPath(Entry(t))
      [] Kind(t) = "sysproxy" -> SysproxyPath(Entry(t))
      [] OTHER -> DbPath(t[2])

\* The path the task installs its output at.
Output(t) == IF Kind(t) = "binary" THEN TargetPath(Entry(t)) ELSE Dest(t)

\* The url argument of the task's downloadFile call.
Url(t) ==
    CASE Kind(t) = "binary" ->
            <<"GITHUB_RELEASE_URL", BINARY_NAME, Entry(t).platform, Entry(t).arch,
              FileExtension(Entry(t).platform)>>
      [] Kind(t) = "sysproxy" -> <<"SYSPROXY_URL">>
      [] OTHER -> <<"conf-template", dbFiles[t[2]]>>

AllPaths ==
    {Dest(t) : t \in AllTasks} \cup {Output(t) : t \in AllTasks}
    \cup {ExtractedFilePath(RUST_TARGET_TRIPLES[i]) : i \in DOMAIN RUST_TARGET_TRIPLES}

(***************************************************************************)
(* Files.  body names the response the bytes came from (the number of the  *)
(* request that the transport answered with them); 0 for a file left by an *)
(* earlier run and for no file.                                            *)
(***************************************************************************)
Absent == [kind |-> "absent", body |-> 0]
Old == [kind |-> "old", body |-> 0]
Partial(b) == [kind |-> "partial", body |-> b]
Complete(b) == [kind |-> "complete", body |-> b]

\* An Error object is named by the attempt of the download that raised it
\* (its message is not modelled); 0 is null.
NoError == 0
ErrorOf(attempt) == attempt

VARIABLES
    config,     \* [version, matrix, assets, prior]: what this run is given
    pc,         \* the top-level script: "start", "running", "exited"
    exits,      \* the exit statuses the process has ended with, in order
    skipChecks, \* how often SkipVersionList.includes has been evaluated
    task,       \* per task: the locals of its async functions
    net,        \* per task: the requests the transport got, those it failed,
                \* and whether bytes of the last one reached the file
    fs,         \* per path: the file at it
    dirs,       \* the directories that exist
    promise,    \* the state of the Promise.all aggregates
    mkdirRaised, \* the directories whose mkdirSync has raised an error
    cronet      \* the locals of downloadCronetLibraries and of its resolver

vars == <<config, pc, exits, skipChecks, task, net, fs, dirs, promise,
          mkdirRaised, cronet>>

ConfigTasks(c) ==
    {BinaryTask(i) : i \in c.matrix}
    \cup {SysproxyTask(i) : i \in {k \in c.matrix : IsHelperTarget(RUST_TARGET_TRIPLES[k])}}
    \cup {DbTask(j) : j \in c.assets}

\* The tasks the run has launched.
Launched == {t \in AllTasks : task[t].phase # "idle"}

NoThrown == [what |-> "none", url |-> <<>>, last |-> NoError]

\* trace: the steps the task's async function has begun, in order.
IdleTask ==
    [phase |-> "idle", attempt |-> 0, lastError |-> NoError, timer |-> FALSE,
     waits |-> <<>>, thrown |-> NoThrown, trace |-> <<>>]

\* The steps of a task before the first await of its async function: a
\* binary task ensures its workspace (line 198) and calls downloadFile (line
\* 202), the sysproxy task ensures the binaries directory (line 251) and
\* calls downloadFile (line 253), a database task calls downloadFile (line
\* 347).
StepsAtLaunch(t) ==
    CASE Kind(t) = "binary" -> <<"ensureTmpDir", "downloadFile">>
      [] Kind(t) = "sysproxy" -> <<"ensureTargetDir", "downloadFile">>
      [] OTHER -> <<"downloadFile">>

\* The state of a task at the first await of its downloadFile call: attempt 1
\* has armed its timer and issued its request.
StartedTask(t) ==
    [phase |-> "fetching", attempt |-> 1, lastError |-> NoError, timer |-> TRUE,
     waits |-> <<>>, thrown |-> NoThrown, trace |-> StepsAtLaunch(t)]

(***************************************************************************)
(* Promise.all: rejected as soon as one member is rejected, fulfilled once *)
(* every member is fulfilled, and settled only once.                       *)
(***************************************************************************)
Group(t) == IF Kind(t) = "db" THEN "database" ELSE "binaries"

\* Mutant: the aggregate is fulfilled by its first fulfilled member.
PromiseAllFirstFulfilled(cur, members, rejected, fulfilled) ==
    IF cur # "pending" THEN cur
    ELSE IF members \cap rejected # {} THEN "rejected"
    ELSE IF members \cap fulfilled # {} THEN "fulfilled"
    ELSE "pending"

PromiseAll(cur, members, rejected, fulfilled) ==
    IF cur # "pending" THEN cur
    ELSE IF members \cap rejected # {} THEN "rejected"
    ELSE IF members \subseteq fulfilled THEN "fulfilled"
    ELSE "pending"

\* The aggregates after the tasks have moved to tk: the two inner
\* Promise.all (downloadEmbeddingExternalBinaries, downloadDatabaseFiles)
\* and the outer one over the two async functions that await them.
Aggregate(p, tk) ==
    LET on == {t \in AllTasks : tk[t].phase # "idle"}
        rej == {t \in on : tk[t].phase = "failed"}
        ful == {t \in on : tk[t].phase = "done"}
        b == PromiseAll(p.binaries, {t \in on : Group(t) = "binaries"}, rej, ful)
        d == PromiseAll(p.database, {t \in on : Group(t) = "database"}, rej, ful)
        inner == [binaries |-> b, database |-> d]
        names == {"binaries", "database"}
    IN  [binaries |-> b, database |-> d,
         all |-> PromiseAll(p.all, names,
                            {g \in names : inner[g] = "rejected"},
                            {g \in names : inner[g] = "fulfilled"})]

(***************************************************************************)
(* The initial state: the script has not run.  It finds a fresh tree (no   *)
(* output directory, no output) or a tree that an earlier complete run has *)
(* provisioned (both output directories and every output of this run).     *)
(***************************************************************************)
\* The sub-tables of RUST_TARGET_TRIPLES a modelled run iterates.  The
\* script treats every row but windows/amd64 alike (only the names differ),
\* so these rows are taken from the top of the table; the windows/amd64 row,
\* which also starts the sysproxy task, is in or out.
SubTables ==
    {{i \in DOMAIN RUST_TARGET_TRIPLES :
            i <= n /\ ~IsHelperTarget(RUST_TARGET_TRIPLES[i])} \cup h :
        n \in 0..Len(RUST_TARGET_TRIPLES),
        h \in SUBSET {i \in DOMAIN RUST_TARGET_TRIPLES :
                            IsHelperTarget(RUST_TARGET_TRIPLES[i])}}

\* The leading parts of dbFiles a modelled run downloads.
AssetLists == {1..m : m \in 0..Len(dbFiles)}

Configs ==
    {c \in [version : Versions,
            matrix : SubTables,
            assets : AssetLists,
            prior : {"fresh", "provisioned"}] :
        /\ Cardinality(ConfigTasks(c)) >= 1
        /\ Cardinality(ConfigTasks(c)) <= MaxTasks}

InitialDirs(c) == IF c.prior = "fresh" THEN {} ELSE {BinDir, ResDir}

InitialFs(c) ==
    [p \in AllPaths |->
        IF c.prior = "provisioned" /\ p \in {Output(t) : t \in ConfigTasks(c)}
          THEN Old ELSE Absent]

\* getCronetLatestVersion's maxRetries and the unit of its delay, in ms.
ResolverMaxRetries == 3
ResolverBackoffUnit == 1000

\* The value of a property that an object does not have.
Undefined == "undefined"

\* data.tag_name of the JSON bodies the release API may answer with: the tag
\* of the latest release at the time of the request, or nothing when the
\* body has no such field.
TagNames == {"cronet-r1", "cronet-r2", Undefined}

\* No value: nothing has been returned, no error has been caught.
NoTag == "none"
NoResolveError == [what |-> "none", attempt |-> 0]

cronetFiles == << "libcronet-linux-amd64.so", "libcronet-windows-amd64.dll" >>

\* url: `${CRONET_RELEASE_URL}${cronetVersion}/libcronet-...`
CronetUrl(cronetVersion, k) == <<"CRONET_RELEASE_URL", cronetVersion, cronetFiles[k]>>

\* downloadCronetLibraries has not been called.  responses: what the
\* transport has answered to each request of the resolver, in order.
IdleCronet ==
    [phase |-> "idle", attempt |-> 0, lastError |-> NoResolveError,
     responses |-> <<>>, waits |-> <<>>, returned |-> NoTag,
     thrown |-> [what |-> "none", attempts |-> 0, last |-> NoResolveError],
     downloads |-> {}]

Init ==
    /\ config \in Configs
    /\ pc = "start"
    /\ exits = <<>>
    /\ skipChecks = 0
    /\ task = [t \in AllTasks |-> IdleTask]
    /\ net = [t \in AllTasks |-> [requests |-> 0, failed |-> 0, wrote |-> FALSE]]
    /\ dirs = InitialDirs(config)
    /\ promise = [binaries |-> "pending", database |-> "pending", all |-> "pending"]
    /\ fs = InitialFs(config)
    /\ mkdirRaised = {}
    /\ cronet = IdleCronet

(***************************************************************************)
(* Top level (lines 355-376).                                              *)
(***************************************************************************)
\* Mutant: the skip list is never consulted.
InSkipListIgnored(v) == FALSE

InSkipList(v) == v \in SkipVersionList

\* The exit status of a script that ends by an uncaught Error.
UncaughtStatus == 1

\* if (SkipVersionList.includes(SING_BOX_VERSION)) { ...; throw new Error(...) }
SkipAbort ==
    /\ pc = "start"
    /\ InSkipList(config.version)
    /\ skipChecks' = skipChecks + 1
    /\ pc' = "exited"
    /\ exits' = Append(exits, UncaughtStatus)
    /\ UNCHANGED <<config, cronet, mkdirRaised, task, net, fs, dirs, promise>>

(***************************************************************************)
(* Directory creation.                                                     *)
(***************************************************************************)
\* fs.mkdirSync(dir, { recursive }) on the directories d: the directories
\* after the call and the directory the call has raised an error for.  With
\* recursive: true an existing directory is left as it is; without it the
\* call raises EEXIST.
MkdirSync(d, dir, recursive) ==
    IF dir \in d /\ ~recursive
      THEN [dirs |-> d, raised |-> {dir}]
      ELSE [dirs |-> d \cup {dir}, raised |-> {}]

\* Mutant: the directory is created without the check and without
\* recursive: true.
EnsureDirUnchecked(d, dir) == MkdirSync(d, dir, FALSE)

\* !fs.existsSync(dir) && fs.mkdirSync(dir, { recursive: true })
EnsureDir(d, dir) ==
    IF dir \notin d THEN MkdirSync(d, dir, TRUE) ELSE [dirs |-> d, raised |-> {}]

\* EnsureDir for each directory of todo, one after the other, within one
\* synchronous run of code.
RECURSIVE EnsureEach(_, _)
EnsureEach(r, todo) ==
    IF todo = {} THEN r
    ELSE LET dir == CHOOSE x \in todo : TRUE
             one == EnsureDir(r.dirs, dir)
         IN  EnsureEach([dirs |-> one.dirs, raised |-> r.raised \cup one.raised],
                        todo \ {dir})

\* Mutant: downloadCronetLibraries() is a member of the array.
CronetAtLaunchCalled(c) == [c EXCEPT !.phase = "fetching", !.attempt = 1]

\* downloadCronetLibraries() is commented out in the array given to
\* Promise.all (line 366): the launch leaves it uncalled.
CronetAtLaunch(c) == c

\* The directories the synchronous part of the launch creates: each binary
\* task its workspace (line 198), the sysproxy task the binaries directory
\* (line 251), downloadDatabaseFiles the resources directory (line 341).
LaunchDirs(c) ==
    {TmpDir(RUST_TARGET_TRIPLES[i]) : i \in c.matrix}
    \cup (IF \E i \in c.matrix : IsHelperTarget(RUST_TARGET_TRIPLES[i])
            THEN {BinDir} ELSE {})
    \cup {ResDir}

\* else { Promise.all([downloadEmbeddingExternalBinaries(),
\*                     downloadDatabaseFiles()]).then(...).catch(...) }
\* Every async function runs synchronously up to its first await, which is
\* the fetch of attempt 1 of its downloadFile call.
Launch ==
    /\ pc = "start"
    /\ ~InSkipList(config.version)
    /\ skipChecks' = skipChecks + 1
    /\ pc' = "running"
    /\ task' = [t \in AllTasks |->
                  IF t \in ConfigTasks(config) THEN StartedTask(t) ELSE IdleTask]
    /\ net' = [t \in AllTasks |->
                  IF t \in ConfigTasks(config)
                    THEN [requests |-> 1, failed |-> 0, wrote |-> FALSE] ELSE net[t]]
    /\ LET made == EnsureEach([dirs |-> dirs, raised |-> {}], LaunchDirs(config))
       IN  /\ dirs' = made.dirs
           /\ mkdirRaised' = mkdirRaised \cup made.raised
    /\ cronet' = CronetAtLaunch(cronet)
    /\ promise' = Aggregate(promise, task')
    /\ UNCHANGED <<config, exits, fs>>

\* No continuation of a settled Promise.all is waiting to run and the
\* process is alive: I/O and timer callbacks may run.
Running == pc = "running" /\ promise.all = "pending"

\* .then(() => { ...; process.exit(0) })
OnFulfilled ==
    /\ pc = "running"
    /\ promise.all = "fulfilled"
    /\ exits' = Append(exits, 0)
    /\ pc' = "exited"
    /\ UNCHANGED <<config, cronet, mkdirRaised, skipChecks, task, net, fs, dirs, promise>>

\* .catch((error) => { ...; process.exit(1) })
OnRejected ==
    /\ pc = "running"
    /\ promise.all = "rejected"
    /\ exits' = Append(exits, 1)
    /\ pc' = "exited"
    /\ UNCHANGED <<config, cronet, mkdirRaised, skipChecks, task, net, fs, dirs, promise>>

(***************************************************************************)
(* downloadFile (lines 132-172).                                           *)
(***************************************************************************)
\* Mutant: the catch block does not clean up.
UnlinkSkipped(f, dest) == f

\* if (fs.existsSync(dest)) { fs.unlinkSync(dest) }
Unlink(f, dest) ==
    IF f[dest].kind # "absent" THEN [f EXCEPT ![dest] = Absent] ELSE f

\* Mutant: a constant delay instead of the progressive one.
WaitTimeConstant(attempt) == BackoffUnit

\* const waitTime = attempt * 1000
WaitTime(attempt) == attempt * BackoffUnit

\* if (attempt < maxRetries): a wait follows the failed attempt
ShouldWait(attempt) == attempt < maxRetries

\* Mutant: the loop test is off by one.
LoopContinuesOffByOne(attempt) == attempt < maxRetries

\* for (let attempt = 1; attempt <= maxRetries; attempt++): the loop test
LoopContinues(attempt) == attempt <= maxRetries

\* new Error(`Download failed after ${maxRetries} attempts: '${url}'.
\*            Last error: ${lastError?.message}`)
DownloadError(url, lastError) == [what |-> "download", url |-> url, last |-> lastError]

\* Mutant: at the end of the loop downloadFile returns instead of throwing.
NextIterationReturning(tk, url) ==
    IF LoopContinues(tk.attempt + 1)
      THEN [tk EXCEPT !.attempt = @ + 1, !.timer = TRUE, !.phase = "fetching"]
      ELSE [tk EXCEPT !.attempt = @ + 1, !.phase = "extracting"]

\* The loop's attempt++ and test after a failed attempt, on the task record
\* tk: the next iteration arms a timer and issues a request, or the loop is
\* over and downloadFile throws.  No caller catches the error without
\* rethrowing it, so the task's promise is rejected.
NextIteration(tk, url) ==
    IF LoopContinues(tk.attempt + 1)
      THEN [tk EXCEPT !.attempt = @ + 1, !.timer = TRUE, !.phase = "fetching"]
      ELSE [tk EXCEPT !.attempt = @ + 1, !.phase = "failed",
                      !.thrown = DownloadError(url, tk.lastError)]

\* The requests the transport has got once the task record is tk.
Requested(n, tk) ==
    IF tk.phase = "fetching"
      THEN [n EXCEPT !.requests = @ + 1, !.wrote = FALSE]
      ELSE n

\* The catch block of the current attempt, entered with error err, and what
\* follows it without an await.
AttemptFailed(t, err) ==
    LET caught == [task[t] EXCEPT !.lastError = err, !.timer = FALSE]
        after == IF ShouldWait(caught.attempt)
                   THEN [caught EXCEPT !.phase = "backoff",
                                       !.waits = Append(@, WaitTime(caught.attempt))]
                   ELSE NextIteration(caught, Url(t))
    IN  /\ fs' = Unlink(fs, Dest(t))
        /\ task' = [task EXCEPT ![t] = after]
        /\ net' = [net EXCEPT ![t] = Requested([@ EXCEPT !.failed = @ + 1], after)]
        /\ promise' = Aggregate(promise, task')
        /\ UNCHANGED <<config, cronet, mkdirRaised, pc, exits, skipChecks, dirs>>

\* fetch() rejects: the request failed before a response arrived.
FetchRejected(t) ==
    /\ Running
    /\ task[t].phase = "fetching"
    /\ AttemptFailed(t, ErrorOf(task[t].attempt))

\* setTimeout(() => controller.abort(), 60000) fires: the request is aborted
\* and fetch() rejects with the abort error.
TimeoutFired(t) ==
    /\ Running
    /\ task[t].timer
    /\ task[t].phase = "fetching"
    /\ AttemptFailed(t, ErrorOf(task[t].attempt))

\* The response arrived; if (!response.ok) throw
ResponseNotOk(t) ==
    /\ Running
    /\ task[t].phase = "fetching"
    /\ AttemptFailed(t, ErrorOf(task[t].attempt))

\* The response arrived; if (!response.body) throw
ResponseNoBody(t) ==
    /\ Running
    /\ task[t].phase = "fetching"
    /\ AttemptFailed(t, ErrorOf(task[t].attempt))

\* .finally(() => clearTimeout(timeoutId)): the timer of the attempt once
\* fetch() has settled.
TimerAfterFetch == FALSE

\* Mutant: the write stream appends to what is at dest.
OpenForWriteAppending(f, dest, body) ==
    [f EXCEPT ![dest] = Partial(IF f[dest].kind = "absent" THEN body ELSE f[dest].body)]

\* createWriteStream(dest): the file is created, or truncated, and is being
\* filled with the body of the request.
OpenForWrite(f, dest, body) == [f EXCEPT ![dest] = Partial(body)]

\* The response arrived with a body: the timer is cleared,
\* createWriteStream(dest) creates or truncates the file and the pipeline
\* starts copying the body of this request into it.
ResponseOk(t) ==
    /\ Running
    /\ task[t].phase = "fetching"
    /\ task' = [task EXCEPT ![t].timer = TimerAfterFetch, ![t].phase = "streaming"]
    /\ fs' = OpenForWrite(fs, Dest(t), net[t].requests)
    /\ net' = [net EXCEPT ![t].wrote = TRUE]
    /\ UNCHANGED <<config, cronet, mkdirRaised, pc, exits, skipChecks, dirs, promise>>

\* The pipeline rejects: the body or the file stream failed midway.
StreamFailed(t) ==
    /\ Running
    /\ task[t].phase = "streaming"
    /\ AttemptFailed(t, ErrorOf(task[t].attempt))

\* await new Promise(resolve => setTimeout(resolve, waitTime)) is over: the
\* loop goes to its next iteration.
BackoffElapsed(t) ==
    /\ Running
    /\ task[t].phase = "backoff"
    /\ task' = [task EXCEPT ![t] = NextIteration(@, Url(t))]
    /\ net' = [net EXCEPT ![t] = Requested(@, task'[t])]
    /\ promise' = Aggregate(promise, task')
    /\ UNCHANGED <<config, cronet, mkdirRaised, pc, exits, skipChecks, fs, dirs>>

\* Mutant: the archives with the suffix ".zip" go to unzipper.
ExtractFileBySuffix(fileExtension) ==
    IF fileExtension = ".zip" THEN <<"unzipper.Extract">> ELSE <<"tar.x">>

\* extractFile (lines 174-180) up to its await: the extraction routines it
\* calls for the format flag, in order.
ExtractFile(fileExtension) ==
    IF fileExtension = "zip" THEN <<"unzipper.Extract">> ELSE <<"tar.x">>

\* The pipeline resolves: the file holds the whole body and downloadFile
\* returns.  A binary task goes on to extractFile (line 203) and awaits it;
\* the sysproxy task and a database task are finished.
StreamDone(t) ==
    /\ Running
    /\ task[t].phase = "streaming"
    /\ fs' = [fs EXCEPT ![Dest(t)] = Complete(fs[Dest(t)].body)]
    /\ task' = [task EXCEPT
                    ![t].phase = IF Kind(t) = "binary" THEN "extracting" ELSE "done",
                    ![t].trace = IF Kind(t) = "binary"
                                   THEN @ \o ExtractFile(FileExtension(Entry(t).platform))
                                   ELSE @]
    /\ promise' = Aggregate(promise, task')
    /\ UNCHANGED <<config, cronet, mkdirRaised, pc, exits, skipChecks, net, dirs>>

(***************************************************************************)
(* embeddingExternalBinaries after the download (lines 203-223).           *)
(***************************************************************************)
\* Mutant: the arguments of the rename are swapped.
RenameSwapped(f, from, to) == [f EXCEPT ![from] = f[to], ![to] = Absent]

\* fs.renameSync(from, to)
Rename(f, from, to) == [f EXCEPT ![to] = f[from], ![from] = Absent]

\* fs.rmSync(tmpDir, { recursive: true, force: true })
RmTmpDir(f, e) == [p \in AllPaths |-> IF p.dir = TmpDir(e) THEN Absent ELSE f[p]]

\* The directories left after the workspace of e has been removed.
DirsAfterCleanup(d, e) == d \ {TmpDir(e)}

\* Mutant: the catch block starts the download again.
RethrowRetried(tk, what) ==
    [tk EXCEPT !.phase = "fetching", !.attempt = 1, !.timer = TRUE]

\* catch (error) { ...; throw error } (lines 219-223): the task ends with
\* the error of the step that failed.
Rethrow(tk, what) ==
    [tk EXCEPT !.phase = "failed",
               !.thrown = [what |-> what, url |-> <<>>, last |-> NoError]]

\* Mutant: the move copies the file and fails midway.
FailedMoveCopying(f, from, to) == [f EXCEPT ![to] = Partial(f[from].body)]

\* fs.renameSync(from, to) throws: neither path has changed.
FailedMove(f, from, to) == f

\* extractFile resolves and the archive held the executable at the expected
\* path: the target directory is ensured, the executable is renamed to the
\* target path and the workspace is removed.
ExtractedAndInstalled(t) ==
    /\ Running
    /\ task[t].phase = "extracting"
    /\ LET e == Entry(t)
           extracted == [fs EXCEPT ![ExtractedFilePath(e)] =
                                       Complete(fs[DownloadPath(e)].body)]
           moved == Rename(extracted, ExtractedFilePath(e), TargetPath(e))
           made == EnsureDir(dirs, BinDir)
       IN  /\ fs' = RmTmpDir(moved, e)
           /\ dirs' = DirsAfterCleanup(made.dirs, e)
           /\ mkdirRaised' = mkdirRaised \cup made.raised
    /\ task' = [task EXCEPT
                    ![t].phase = "done",
                    ![t].trace = @ \o <<"ensureTargetDir", "renameSync", "rmSync">>]
    /\ promise' = Aggregate(promise, task')
    /\ UNCHANGED <<config, cronet, pc, exits, skipChecks, net>>

\* extractFile resolves but the expected path is not in the extracted tree:
\* renameSync throws, the catch block logs and rethrows.
ExtractedPathMissing(t) ==
    /\ Running
    /\ task[t].phase = "extracting"
    /\ LET made == EnsureDir(dirs, BinDir)
       IN  /\ dirs' = made.dirs
           /\ mkdirRaised' = mkdirRaised \cup made.raised
    /\ task' = [task EXCEPT
                    ![t] = Rethrow([@ EXCEPT !.trace = @ \o <<"ensureTargetDir", "renameSync">>],
                                   "rename")]
    /\ promise' = Aggregate(promise, task')
    /\ UNCHANGED <<config, cronet, pc, exits, skipChecks, net, fs>>

\* extractFile resolves and the executable is there, but renameSync fails
\* (the target cannot be written): the catch block logs and rethrows.
MoveFailed(t) ==
    /\ Running
    /\ task[t].phase = "extracting"
    /\ LET e == Entry(t)
           extracted == [fs EXCEPT ![ExtractedFilePath(e)] =
                                       Complete(fs[DownloadPath(e)].body)]
           made == EnsureDir(dirs, BinDir)
       IN  /\ fs' = FailedMove(extracted, ExtractedFilePath(e), TargetPath(e))
           /\ dirs' = made.dirs
           /\ mkdirRaised' = mkdirRaised \cup made.raised
    /\ task' = [task EXCEPT
                    ![t] = Rethrow([@ EXCEPT !.trace = @ \o <<"ensureTargetDir", "renameSync">>],
                                   "rename")]
    /\ promise' = Aggregate(promise, task')
    /\ UNCHANGED <<config, cronet, pc, exits, skipChecks, net>>

\* extractFile rejects: the archive is malformed; what it had written to the
\* workspace by then stays there.
ExtractFailed(t) ==
    /\ Running
    /\ task[t].phase = "extracting"
    /\ \E left \in {Absent, Partial(fs[DownloadPath(Entry(t))].body)} :
          fs' = [fs EXCEPT ![ExtractedFilePath(Entry(t))] = left]
    /\ task' = [task EXCEPT ![t] = Rethrow(@, "extract")]
    /\ promise' = Aggregate(promise, task')
    /\ UNCHANGED <<config, cronet, mkdirRaised, pc, exits, skipChecks, net, dirs>>

(***************************************************************************)
(* getCronetLatestVersion (lines 266-294) and downloadCronetLibraries      *)
(* (lines 297-325).  The script never calls them (line 366); CronetSpec    *)
(* below is the course of one call of downloadCronetLibraries.  The        *)
(* library downloads it starts are calls of downloadFile, modelled above;  *)
(* here they are followed up to their first request.                       *)
(***************************************************************************)
\* const waitTime = attempt * 1000
ResolverWaitTime(attempt) == attempt * ResolverBackoffUnit

\* if (attempt < maxRetries): a wait follows the failed attempt
ResolverShouldWait(attempt) == attempt < ResolverMaxRetries

\* for (let attempt = 1; attempt <= maxRetries; attempt++): the loop test
ResolverLoopContinues(attempt) == attempt <= ResolverMaxRetries

\* new Error(`Failed to fetch cronet-go version after ${maxRetries}
\*            attempts. Last error: ${lastError?.message}`)
ResolveError(lastError) ==
    [what |-> "resolve", attempts |-> ResolverMaxRetries, last |-> lastError]

\* The loop's attempt++ and test: the next iteration issues a request, or
\* the loop is over, getCronetLatestVersion throws and the await of
\* downloadCronetLibraries (line 298) throws with it.
ResolverNextIteration(c) ==
    IF ResolverLoopContinues(c.attempt + 1)
      THEN [c EXCEPT !.attempt = @ + 1, !.phase = "fetching"]
      ELSE [c EXCEPT !.attempt = @ + 1, !.phase = "failed",
                     !.thrown = ResolveError(c.lastError)]

\* The catch block of the current attempt, entered with an error of kind
\* what, and what follows it without an await.
ResolverAttemptFailed(what) ==
    LET caught == [cronet EXCEPT !.lastError = [what |-> what, attempt |-> cronet.attempt],
                                 !.responses = Append(@, what)]
    IN  /\ cronet' = IF ResolverShouldWait(caught.attempt)
                       THEN [caught EXCEPT !.phase = "backoff",
                                           !.waits = Append(@, ResolverWaitTime(caught.attempt))]
                       ELSE ResolverNextIteration(caught)
        /\ UNCHANGED <<config, pc, exits, skipChecks, task, net, fs, dirs,
                       promise, mkdirRaised>>

\* downloadCronetLibraries() is called: getCronetLatestVersion runs to the
\* fetch of its first attempt.
CronetCall ==
    /\ cronet.phase = "idle"
    /\ cronet' = [cronet EXCEPT !.phase = "fetching", !.attempt = 1]
    /\ UNCHANGED <<config, pc, exits, skipChecks, task, net, fs, dirs,
                   promise, mkdirRaised>>

\* fetch() rejects.
ResolverFetchRejected ==
    /\ cronet.phase = "fetching"
    /\ ResolverAttemptFailed("fetch")

\* The response arrived; if (!response.ok) throw
ResolverResponseNotOk ==
    /\ cronet.phase = "fetching"
    /\ ResolverAttemptFailed("status")

\* The response arrived with response.ok: await response.json()
ResolverResponseOk ==
    /\ cronet.phase = "fetching"
    /\ cronet' = [cronet EXCEPT !.phase = "parsing"]
    /\ UNCHANGED <<config, pc, exits, skipChecks, task, net, fs, dirs,
                   promise, mkdirRaised>>

\* response.json() rejects: the body is not JSON.
ResolverJsonRejected ==
    /\ cronet.phase = "parsing"
    /\ ResolverAttemptFailed("json")

\* response.json() resolves with data; return data.tag_name.  Then
\* downloadCronetLibraries builds the two URLs with the value it got,
\* ensures the resources directory and calls downloadFile for each library.
ResolverReturned ==
    /\ cronet.phase = "parsing"
    /\ \E tag_name \in TagNames :
          cronet' = [cronet EXCEPT
                        !.phase = "downloading",
                        !.responses = Append(@, tag_name),
                        !.returned = tag_name,
                        !.downloads = {CronetUrl(tag_name, k) : k \in DOMAIN cronetFiles}]
    /\ LET made == EnsureDir(dirs, ResDir)
       IN  /\ dirs' = made.dirs
           /\ mkdirRaised' = mkdirRaised \cup made.raised
    /\ UNCHANGED <<config, pc, exits, skipChecks, task, net, fs, promise>>

\* await new Promise(resolve => setTimeout(resolve, waitTime)) is over.
ResolverBackoffElapsed ==
    /\ cronet.phase = "backoff"
    /\ cronet' = ResolverNextIteration(cronet)
    /\ UNCHANGED <<config, pc, exits, skipChecks, task, net, fs, dirs,
                   promise, mkdirRaised>>

CronetNext ==
    \/ CronetCall
    \/ ResolverFetchRejected
    \/ ResolverResponseNotOk
    \/ ResolverResponseOk
    \/ ResolverJsonRejected
    \/ ResolverReturned
    \/ ResolverBackoffElapsed

\* One call of downloadCronetLibraries, from the initial state of the script.
CronetSpec == Init /\ [][CronetNext]_vars

(***************************************************************************)
(* The specification.                                                      *)
(***************************************************************************)
TaskStep(t) ==
    \/ FetchRejected(t)
    \/ TimeoutFired(t)
    \/ ResponseNotOk(t)
    \/ ResponseNoBody(t)
    \/ ResponseOk(t)
    \/ StreamFailed(t)
    \/ StreamDone(t)
    \/ BackoffElapsed(t)
    \/ ExtractedAndInstalled(t)
    \/ ExtractedPathMissing(t)
    \/ MoveFailed(t)
    \/ ExtractFailed(t)

Next ==
    \/ SkipAbort
    \/ Launch
    \/ OnFulfilled
    \/ OnRejected
    \/ \E t \in AllTasks : TaskStep(t)

Spec == Init /\ [][Next]_vars

\* The event loop runs every callback that is ready, and the transport, the
\* timers and the extraction answer every request made of them.
LiveSpec == Spec /\ WF_vars(Next)

(***************************************************************************)
(* Properties.                                                             *)
(***************************************************************************)
\* downloadFile has returned to its caller.
DownloadReturned(t) ==
    \/ task[t].phase \in {"extracting", "done"}
    \/ task[t].thrown.what \in {"extract", "rename"}

\* downloadFile has thrown its terminal error.
DownloadThrew(t) == task[t].thrown.what = "download"

\* C1: once an attempt of downloadFile has failed, and until the next
\* attempt or the terminal error, no partially written file is at the
\* destination path.
C1_NoPartialFileAfterFailedAttempt ==
    \A t \in AllTasks :
        (task[t].phase = "backoff" \/ DownloadThrew(t))
            => fs[Dest(t)].kind # "partial"

\* An attempt that had begun to write the file has failed; the task waits
\* for its next attempt and the file is gone.
C1_Witness ==
    \E t \in AllTasks :
        /\ task[t].phase = "backoff"
        /\ net[t].wrote
        /\ fs[Dest(t)] = Absent

\* C2: when the first k < maxRetries attempts fail and attempt k+1 succeeds,
\* downloadFile returns after exactly k+1 requests, makes no request after
\* the success, and the destination holds the whole body of request k+1; and
\* the run comes to a state in which every download it launched has returned
\* or thrown, but for those that the failure of another task has ended with
\* the process.
C2_SuccessAfterKFailures ==
    /\ [](\A t \in AllTasks :
            DownloadReturned(t) =>
                /\ net[t].failed < 3
                /\ net[t].requests = net[t].failed + 1
                /\ LET at == IF Kind(t) = "binary" /\ task[t].phase = "done"
                               THEN Output(t) ELSE Dest(t)
                   IN  fs[at] = Complete(net[t].failed + 1))
    /\ [][\A t \in AllTasks :
            DownloadReturned(t) => net'[t].requests = net[t].requests]_vars
    /\ <>(/\ pc # "start"
          /\ \A t \in Launched :
                \/ DownloadReturned(t)
                \/ DownloadThrew(t)
                \/ /\ pc = "exited"
                   /\ \E u \in Launched \ {t} : task[u].phase = "failed")

\* Two attempts have failed and the third has succeeded, over a file that
\* was at the destination before the run.
C2_Witness ==
    \E t \in AllTasks :
        /\ Kind(t) = "db"
        /\ config.prior = "provisioned"
        /\ task[t].phase = "done"
        /\ net[t].failed = 2
        /\ fs[Dest(t)] = Complete(3)

\* C3: maxRetries consecutive failures make downloadFile throw, after
\* exactly maxRetries requests, an error that carries the URL and the error
\* of the last attempt; the destination path does not exist then.
C3_ThrowsAfterMaxRetriesFailures ==
    \A t \in AllTasks :
        /\ net[t].failed >= 3 <=> DownloadThrew(t)
        /\ DownloadThrew(t) =>
              /\ net[t].requests = 3
              /\ net[t].failed = 3
              /\ task[t].phase = "failed"
              /\ task[t].thrown.url = Url(t)
              /\ task[t].thrown.last = 3
              /\ fs[Dest(t)] = Absent

\* downloadFile has thrown for a destination at which a file was before
\* the run.
C3_Witness ==
    \E t \in AllTasks :
        /\ Kind(t) # "binary"
        /\ config.prior = "provisioned"
        /\ DownloadThrew(t)

\* C4: the wait after failed attempt n is n * 1000 ms for n < maxRetries,
\* and no wait follows the last failed attempt.
C4_LinearBackoff ==
    \A t \in AllTasks :
        LET w == task[t].waits
        IN  /\ \A n \in 1..Len(w) : w[n] = n * 1000
            /\ Len(w) = IF net[t].failed < 3 THEN net[t].failed ELSE 2

\* A download has thrown after its three attempts and has waited twice.
C4_Witness ==
    \E t \in AllTasks : DownloadThrew(t) /\ task[t].waits = <<1000, 2000>>

\* C5: with the configured version in the skip list, the run ends with a
\* failure status, with no task created, no request issued and the file
\* system untouched; the skip list is checked once, before anything else.
C5_SkipListAborts ==
    /\ skipChecks = (IF pc = "start" THEN 0 ELSE 1)
    /\ config.version = "v1.12.5" =>
          /\ pc \in {"start", "exited"}
          /\ pc = "exited" => Len(exits) = 1 /\ exits[1] # 0
          /\ Launched = {}
          /\ \A t \in AllTasks : net[t].requests = 0
          /\ fs = InitialFs(config)
          /\ dirs = InitialDirs(config)

\* The run of a skipped version has ended.
C5_Witness ==
    /\ config.version = "v1.12.5"
    /\ pc = "exited"
    /\ exits = <<1>>

\* C6: the process exits only after every launched task has settled, so
\* when the run fails because a binary task failed, a database task that
\* the transport never failed has completed and its file is on disk.
C6_ExitsOnlyAfterAllTasksSettled ==
    pc = "exited" =>
        /\ \A t \in Launched : task[t].phase \in {"done", "failed"}
        /\ (\E b \in Launched : Kind(b) = "binary" /\ task[b].phase = "failed")
              => \A t \in Launched :
                    Kind(t) = "db" /\ net[t].failed = 0
                        => fs[Dest(t)].kind = "complete"

\* C7: the exit status is decided once; it is 0 exactly when the version is
\* not in the skip list and every task of the run has succeeded, and 1
\* otherwise.
C7_ExitStatus ==
    /\ Len(exits) <= 1
    /\ pc = "exited" <=> Len(exits) = 1
    /\ Len(exits) = 1 =>
          /\ exits[1] \in {0, 1}
          /\ exits[1] = 0 <=>
                /\ config.version # "v1.12.5"
                /\ \A t \in ConfigTasks(config) : task[t].phase = "done"

\* The run of windows/amd64 has ended with status 0: the binary task and
\* the sysproxy task have both succeeded.
C7_Witness ==
    /\ exits = <<0>>
    /\ {BinaryTask(5), SysproxyTask(5)} \subseteq Launched

\* The transport has failed no request and no task has thrown.
FaultFree ==
    \A t \in AllTasks : net[t].failed = 0 /\ task[t].thrown.what = "none"

\* Every output of the run is in place and holds the whole body of the
\* task's first request.
AllInstalled ==
    \A t \in ConfigTasks(config) : fs[Output(t)] = Complete(1)

C9_TimeoutArmedThroughoutAttempt ==
    \A t \in AllTasks :
        task[t].phase \in {"fetching", "streaming"} => task[t].timer

\* C10: once a binary task has ended by success, by a failed download or by
\* a failed extraction, its workspace is gone.
C10_WorkspaceRemoved ==
    \A t \in AllTasks :
        /\ Kind(t) = "binary"
        /\ task[t].phase = "done" \/ task[t].thrown.what \in {"download", "extract"}
        => TmpDir(Entry(t)) \notin dirs

\* The extraction routines the task has called, in order.
Strategies(t) ==
    SelectSeq(task[t].trace, LAMBDA step : step \in {"unzipper.Extract", "tar.x"})

\* The task has called extractFile.
ExtractionBegun(t) ==
    \/ task[t].phase \in {"extracting", "done"} /\ Kind(t) = "binary"
    \/ task[t].thrown.what \in {"extract", "rename"}

\* C11: extractFile calls the zip routine exactly for the flag 'zip' and the
\* tar routine for every other flag, never both; the installer passes 'zip'
\* exactly for windows and 'tar.gz' for every other platform, so a task that
\* has begun its extraction has called the one routine of its platform.
C11_ExtractionDispatch ==
    /\ ExtractFile("zip") = <<"unzipper.Extract">>
    /\ \A flag \in {"tar.gz", ".zip", "ZIP", "tar", "tgz", ""} :
          ExtractFile(flag) = <<"tar.x">>
    /\ \A i \in DOMAIN RUST_TARGET_TRIPLES :
          LET platform == RUST_TARGET_TRIPLES[i].platform
          IN  /\ platform = "windows" <=> FileExtension(platform) = "zip"
              /\ platform # "windows" <=> FileExtension(platform) = "tar.gz"
    /\ \A t \in AllTasks :
          Strategies(t) =
            IF ~ExtractionBegun(t) THEN <<>>
            ELSE IF Entry(t).platform = "windows" THEN <<"unzipper.Extract">>
            ELSE <<"tar.x">>

\* The windows archive has been downloaded and its extraction by the zip
\* routine is under way.
C11_Witness ==
    /\ task[BinaryTask(5)].phase = "extracting"
    /\ Strategies(BinaryTask(5)) = <<"unzipper.Extract">>

\* The steps of a binary task that runs to its end, in the order of the code.
StepsOfInstall(e) ==
    <<"ensureTmpDir", "downloadFile">>
    \o (IF e.platform = "windows" THEN <<"unzipper.Extract">> ELSE <<"tar.x">>)
    \o <<"ensureTargetDir", "renameSync", "rmSync">>

\* C12: the steps of a binary task come one after the other in the order
\* create workspace, fetch, extract, ensure target directory, move, remove
\* workspace; the workspace exists while the archive is fetched and
\* extracted; the extraction begins in the step in which the last attempt of
\* the fetch has written the whole archive, never while an attempt is in
\* flight or waiting and never after the fetch has thrown; the executable is
\* moved only in the step that ends a finished extraction.
C12_StepsSequential ==
    /\ [](\A t \in AllTasks :
            Kind(t) = "binary" =>
              LET steps == task[t].trace
                  e == Entry(t)
              IN  /\ Len(steps) <= 6
                  /\ steps = SubSeq(StepsOfInstall(e), 1, Len(steps))
                  /\ task[t].phase \in {"fetching", "streaming", "backoff", "extracting"}
                        => TmpDir(e) \in dirs
                  /\ task[t].phase \in {"fetching", "streaming", "backoff"} \/ DownloadThrew(t)
                        => Len(steps) = 2
                  /\ task[t].phase = "extracting"
                        => /\ Len(steps) = 3
                           /\ net[t].requests = net[t].failed + 1
                           /\ fs[DownloadPath(e)].kind = "complete"
                  /\ Len(steps) > 3 => task[t].phase \in {"done", "failed"})
    /\ [][\A t \in AllTasks :
            Kind(t) = "binary" =>
              /\ Len(task'[t].trace) > 2 /\ Len(task[t].trace) <= 2
                    => /\ task[t].phase = "streaming"
                       /\ task'[t].phase = "extracting"
                       /\ fs'[DownloadPath(Entry(t))] = Complete(net[t].requests)
              /\ Len(task'[t].trace) > 3 /\ Len(task[t].trace) <= 3
                    => task[t].phase = "extracting"
              /\ fs'[TargetPath(Entry(t))] # fs[TargetPath(Entry(t))]
                    => /\ task[t].phase = "extracting"
                       /\ task'[t].trace = StepsOfInstall(Entry(t))
                       /\ TmpDir(Entry(t)) \notin dirs']_vars

\* A binary task has gone through all its steps, after a failed attempt of
\* its fetch, and has put the executable in place of the one of an earlier
\* run.
C12_Witness ==
    \E t \in AllTasks :
        /\ Kind(t) = "binary"
        /\ config.prior = "provisioned"
        /\ net[t].failed = 1
        /\ task[t].trace = StepsOfInstall(Entry(t))
        /\ fs[TargetPath(Entry(t))] = Complete(2)

\* The paths the task's code writes, renames or removes.
Owned(t) ==
    {Dest(t), Output(t)}
    \cup (IF Kind(t) = "binary" THEN {ExtractedFilePath(Entry(t))} ELSE {})

\* The paths of the tasks do not meet: the outputs are pairwise distinct,
\* and so are the download destinations, the paths of two tasks and the
\* workspaces of two binary tasks; no output lies in a workspace.
PathsDisjoint ==
    /\ Cardinality({Output(t) : t \in {u \in AllTasks : Kind(u) = "binary"}}) = 5
    /\ Cardinality({Output(t) : t \in AllTasks}) = 8
    /\ \A t, u \in AllTasks :
          t # u =>
            /\ Output(t) # Output(u)
            /\ Dest(t) # Dest(u)
            /\ Owned(t) \cap Owned(u) = {}
            /\ Kind(t) = "binary" /\ Kind(u) = "binary"
                  => TmpDir(Entry(t)) # TmpDir(Entry(u))
            /\ Kind(t) = "binary" => Output(u).dir # TmpDir(Entry(t))

\* C13: the five binary destinations, the helper destination and the two
\* database destinations are pairwise distinct, no two tasks have a path in
\* common, the workspaces of the binary tasks are pairwise distinct and hold
\* no output; and every change of the file at a path is made by a step of
\* the one task that owns the path.
C13_NoSharedPaths ==
    /\ [](PathsDisjoint
          /\ \A t \in Launched : Kind(t) = "binary" /\ task[t].phase # "done"
                => \A u \in Launched \ {t} : fs[Dest(u)].kind = "absent"
                                              \/ Dest(u).dir # TmpDir(Entry(t)))
    /\ [][fs' # fs =>
            \E t \in Launched :
                /\ task'[t] # task[t]
                /\ \A u \in AllTasks \ {t} : task'[u] = task[u]
                /\ \A p \in AllPaths \ Owned(t) : fs'[p] = fs[p]]_vars

\* Two binary tasks run at once: each has its archive in its own workspace
\* and is extracting it.
C13_Witness ==
    \E t, u \in Launched :
        /\ t # u
        /\ Kind(t) = "binary" /\ Kind(u) = "binary"
        /\ task[t].phase = "extracting" /\ task[u].phase = "extracting"
        /\ TmpDir(Entry(t)) \in dirs /\ TmpDir(Entry(u)) \in dirs
        /\ fs[Dest(t)].kind = "complete" /\ fs[Dest(u)].kind = "complete"

\* The tasks of a run over the whole of RUST_TARGET_TRIPLES and dbFiles.
TasksOfFullRun ==
    ConfigTasks([version |-> "v1.12.13", matrix |-> DOMAIN RUST_TARGET_TRIPLES,
                 assets |-> DOMAIN dbFiles, prior |-> "fresh"])

LaunchedOfKind(kind) == {t \in Launched : Kind(t) = kind}

\* C14: a run whose version is not skipped launches one binary task for each
\* (platform, architecture) pair it iterates, one sysproxy task for the pair
\* windows/amd64 and for no other, and one download for each database file,
\* all in the one step of the launch, in which each is at its first request
\* and none has settled; over the whole table that is five binary tasks, one
\* sysproxy task and two database downloads.  downloadCronetLibraries and
\* getCronetLatestVersion are not called in any run.
C14_LaunchSet ==
    /\ [](/\ {t \in TasksOfFullRun : Kind(t) = "binary"} = {<<"binary", i>> : i \in 1..5}
          /\ {t \in TasksOfFullRun : Kind(t) = "sysproxy"} = {<<"sysproxy", 5>>}
          /\ {t \in TasksOfFullRun : Kind(t) = "db"} = {<<"db", 1>>, <<"db", 2>>}
          /\ RUST_TARGET_TRIPLES[5].platform = "windows"
          /\ RUST_TARGET_TRIPLES[5].arch = "amd64")
    /\ [](pc # "start" /\ config.version # "v1.12.5" =>
            /\ LaunchedOfKind("binary") = {<<"binary", i>> : i \in config.matrix}
            /\ LaunchedOfKind("sysproxy") =
                  {<<"sysproxy", i>> : i \in {k \in config.matrix :
                        /\ RUST_TARGET_TRIPLES[k].platform = "windows"
                        /\ RUST_TARGET_TRIPLES[k].arch = "amd64"}}
            /\ Cardinality(LaunchedOfKind("sysproxy")) <= 1
            /\ LaunchedOfKind("db") = {<<"db", j>> : j \in config.assets})
    /\ [](cronet.phase = "idle" /\ cronet.attempt = 0 /\ cronet.downloads = {})
    /\ [][Launched' # Launched =>
            /\ Launched = {}
            /\ pc = "start" /\ pc' = "running"
            /\ \A t \in Launched' :
                  /\ task'[t].phase = "fetching"
                  /\ task'[t].attempt = 1
                  /\ net'[t].requests = 1]_vars

\* The run over the windows/amd64 row has launched its binary task and the
\* sysproxy task, and the cronet functions have not been called.
C14_Witness ==
    /\ pc = "running"
    /\ config.matrix = {5}
    /\ Launched = {BinaryTask(5), SysproxyTask(5)}
    /\ cronet = IdleCronet

\* How often the step occurs among the steps the task has begun.
Count(t, step) == Len(SelectSeq(task[t].trace, LAMBDA x : x = step))

\* C15: a failed extraction, a missing executable and a failed move end the
\* binary task at once with the error rethrown: the task has made no request
\* after the one whose archive it extracted, has called one extraction
\* routine once and renameSync at most once (not at all after a failed
\* extraction), changes nothing from then on, and its failure rejects the
\* aggregate in the same step.  No task calls renameSync twice.
C15_OnlyFetchRetried ==
    /\ [](\A t \in AllTasks :
            /\ Count(t, "renameSync") <= 1
            /\ Count(t, "unzipper.Extract") + Count(t, "tar.x") <= 1
            /\ Count(t, "downloadFile") <= 1
            /\ task[t].thrown.what \in {"extract", "rename"} =>
                  /\ Kind(t) = "binary"
                  /\ task[t].phase = "failed"
                  /\ promise.binaries = "rejected"
                  /\ Count(t, "unzipper.Extract") + Count(t, "tar.x") = 1
                  /\ Count(t, "renameSync") =
                        (IF task[t].thrown.what = "rename" THEN 1 ELSE 0)
                  /\ net[t].requests = net[t].failed + 1
                  /\ task[t].attempt = net[t].requests)
    /\ [][\A t \in AllTasks :
            /\ task[t].thrown.what \in {"extract", "rename"}
                  => task'[t] = task[t] /\ net'[t] = net[t]
            /\ task'[t].thrown.what \in {"extract", "rename"}
                /\ task[t].thrown.what = "none"
                  => task[t].phase = "extracting"]_vars

\* A binary task whose download succeeded at the second attempt has failed
\* at renameSync.
C15_Witness ==
    \E t \in AllTasks :
        /\ task[t].thrown.what = "rename"
        /\ net[t].failed = 1
        /\ net[t].requests = 2
        /\ Count(t, "renameSync") = 1

\* C16: no check-then-create of a directory raises an error, whichever task
\* comes first and whether or not the directory was there before the run;
\* and the directory is there afterwards: the resources directory once the
\* run is launched, the binaries directory once the sysproxy task is
\* launched or a binary task has got to its move, the workspace of a binary
\* task while it downloads and extracts.
C16_DirectoryCreationSafe ==
    /\ mkdirRaised = {}
    /\ pc # "start" /\ config.version # "v1.12.5" => ResDir \in dirs
    /\ \A t \in Launched :
          /\ Kind(t) = "sysproxy" => BinDir \in dirs
          /\ Kind(t) = "binary" /\ Count(t, "ensureTargetDir") = 1 => BinDir \in dirs
          /\ Kind(t) = "binary" /\ Count(t, "ensureTargetDir") = 0
                => TmpDir(Entry(t)) \in dirs

\* On a fresh tree the sysproxy task has created the binaries directory and
\* the binary task of windows/amd64, coming second, has found it there.
C16_Witness ==
    /\ config.prior = "fresh"
    /\ task[SysproxyTask(5)].phase # "idle"
    /\ Count(BinaryTask(5), "ensureTargetDir") = 1
    /\ BinDir \in dirs
    /\ mkdirRaised = {}

\* The requests the resolver has issued.
ResolverRequests ==
    IF cronet.phase \in {"fetching", "parsing"}
      THEN Len(cronet.responses) + 1 ELSE Len(cronet.responses)

\* The attempts of the resolver that have failed.
ResolverFailures ==
    Len(SelectSeq(cronet.responses,
                  LAMBDA r : r \in {"fetch", "status", "json"}))

\* C17: getCronetLatestVersion issues at most 3 requests, waits n * 1000 ms
\* after failed attempt n < 3 and throws after 3 failures;
\* downloadCronetLibraries starts no download unless the resolver has
\* returned a release tag that its last request was answered with, and the
\* downloads it starts carry that tag.
C17_ResolverBoundedAndTagFromResponse ==
    /\ ResolverRequests <= 3
    /\ \A n \in 1..Len(cronet.waits) : cronet.waits[n] = n * 1000
    /\ Len(cronet.waits) = IF ResolverFailures < 3 THEN ResolverFailures ELSE 2
    /\ ResolverFailures = 3 <=> cronet.thrown.what = "resolve"
    /\ cronet.thrown.what = "resolve" =>
          /\ cronet.phase = "failed"
          /\ cronet.thrown.attempts = 3
          /\ cronet.thrown.last = cronet.lastError
          /\ cronet.lastError.attempt = 3
    /\ cronet.downloads # {} =>
          /\ cronet.returned \in {"cronet-r1", "cronet-r2"}
          /\ cronet.responses[Len(cronet.responses)] = cronet.returned
          /\ \A url \in cronet.downloads : url[2] = cronet.returned

\* C18: the file at the target path of a binary is the one that was there
\* before the run, or the whole executable extracted from the archive of the
\* task's last request; it is never a partial file.  The path changes only in
\* the step that ends the extraction, by the rename out of the workspace,
\* which takes the executable away from the workspace.
C18_BinaryPlacementAtomic ==
    /\ [](\A t \in AllTasks :
            Kind(t) = "binary" =>
              LET target == TargetPath(Entry(t))
              IN  /\ fs[target].kind # "partial"
                  /\ \/ fs[target] = InitialFs(config)[target]
                     \/ /\ task[t].phase = "done"
                        /\ fs[target] = Complete(net[t].requests)
                  /\ task[t].phase = "done" => fs[target] = Complete(net[t].requests))
    /\ [][\A t \in AllTasks :
            Kind(t) = "binary" /\ fs'[TargetPath(Entry(t))] # fs[TargetPath(Entry(t))]
              => /\ task[t].phase = "extracting"
                 /\ task'[t].phase = "done"
                 /\ Count(t, "renameSync") = 0
                 /\ fs'[ExtractedFilePath(Entry(t))] = Absent
                 /\ fs'[TargetPath(Entry(t))] = Complete(fs[DownloadPath(Entry(t))].body)]_vars

\* The move of a binary task has failed: the executable is still in the
\* workspace, whole, and the target path holds the file of the earlier run.
C18_Witness ==
    \E t \in AllTasks :
        /\ Kind(t) = "binary"
        /\ task[t].thrown.what = "rename"
        /\ fs[ExtractedFilePath(Entry(t))].kind = "complete"
        /\ fs[TargetPath(Entry(t))] = Old

\* C19: when the process has exited, with whatever status, no output path
\* of the run (binary, sysproxy executable, database file) holds a partially
\* written file.
C19_NoTruncatedOutputAtExit ==
    pc = "exited" =>
        \A t \in ConfigTasks(config) : fs[Output(t)].kind # "partial"

====
